---- MODULE Spec2Model ----
(***************************************************************************)
(* Model of the hours dashboard (src/app.py): a Streamlit script that is   *)
(* re-run top to bottom on every interaction.  Each action below is one    *)
(* script run: load_entries, the aggregates, and then the branch of the    *)
(* widget that triggered the run (password box, entry form, Save button).  *)
(*                                                                         *)
(* Dates are day numbers counted from a Monday (day 0); ISO date text and  *)
(* day numbers are in order-preserving bijection, so ORDER BY on the text  *)
(* is the order of the numbers.  Hours are whole hours.  Text produced by  *)
(* astype(str) is a sequence of one-character strings.                     *)
(*                                                                         *)
(* Every cell of a row holds a value; only the id of a row appended in the *)
(* grid is missing.  astype(str) is the conversion of pandas before 3.0,   *)
(* the versions Streamlit admits: str() of each element, missing ones      *)
(* included.  Any storage call may raise (connection, write or parameter   *)
(* binding failure); which one does is an input of the run.                *)
(***************************************************************************)
EXTENDS Integers, Sequences, FiniteSets, TLC

\* ------------------------------------------------------------------ bounds
\* largest id the store hands out before the model stops inserting
MaxId == 2
\* rows the user may append in the editable grid in one Save
MaxAdded == 1

\* ------------------------------------------------------------- input sets
\* (entry_date, description, hours) triples the form and the grid can hold
Entries == { <<2, "a", 10>>, <<2, "b", 10>>, <<16, "a", 15>> }
\* cells typed into a row appended in the grid; the triple is one the table
\* can already hold, so an appended row can repeat a stored row
NewEntries == { <<2, "a", 10>> }
\* values of pd.Timestamp.today() under which the script is run
Todays == {9, 23}

\* ------------------------------------------------------- program constants
total_quota == 25
\* the missing id (None / NaN) of a row appended in the grid
Null == -1

VARIABLES
    rows,               \* table entries: set of [id, entry_date, description, hours]
    seq,                \* sqlite_sequence: largest id AUTOINCREMENT has assigned
    today,              \* pd.Timestamp.today().normalize()
    is_authorized,      \* auth_pw == ADMIN_PASSWORD
    df,                 \* result of load_entries() in the last run
    hours_used, hours_remaining, percent_used,
    weekly_usage_full,  \* sequence of [week, hours]; <<>> when df is empty
    editable_df,        \* the table the grid returned in the last Save
    id_dtype,           \* dtype of editable_df["id"]
    plan,               \* storage calls the last Save set out to make
    issued,             \* storage calls made in the last run, in order
    failed,             \* index in plan of the call that raised, 0 if none
    before,             \* table entries when the last run started
    assigned,           \* every id the table held when a run so far started
    message,            \* st.success text of the last run, "error" if it raised
    last                \* widget that triggered the last run

vars == << rows, seq, today, is_authorized, df, hours_used, hours_remaining,
           percent_used, weekly_usage_full, editable_df, id_dtype, plan,
           issued, failed, before, assigned, message, last >>

\* ---------------------------------------------------------------- helpers
Max(a, b) == IF a >= b THEN a ELSE b

MaxOf(S) == IF S = {} THEN 0 ELSE CHOOSE m \in S : \A o \in S : o <= m

\* all orders in which a Python set can be iterated
Perms(S) ==
    { p \in [1..Cardinality(S) -> S] : \A i, j \in 1..Cardinality(S) : i # j => p[i] # p[j] }

\* ---------------------------------------------------------- text of an id
DigitChar(k) == << "0", "1", "2", "3", "4", "5", "6", "7", "8", "9" >>[k + 1]

RECURSIVE Digits(_)
Digits(n) == IF n < 10 THEN << DigitChar(n) >>
             ELSE Digits(n \div 10) \o << DigitChar(n % 10) >>

\* Series.astype(str): str() of every element; the result holds str objects
\* only, so a missing id becomes the text "nan" (float64) or "None" (object)
astype_str(v, dtype) ==
    CASE dtype = "float64" ->
            IF v = Null THEN << "n", "a", "n" >> ELSE Digits(v) \o << ".", "0" >>
      [] dtype = "object" ->
            IF v = Null THEN << "N", "o", "n", "e" >> ELSE Digits(v)
      [] OTHER -> Digits(v)

\* Series.isna() on the column astype(str) produced: a str is never missing
isna(s) == FALSE

\* WHERE id = ? with a text parameter: the INTEGER column gives the text
\* numeric affinity, so "1" and "1.0" both equal 1 and "nan" equals no id
SqlIdEq(i, s) == s = Digits(i) \/ s = Digits(i) \o << ".", "0" >>

\* ------------------------------------------------------- storage accessor
\* A store is [rows, seq].  CREATE TABLE IF NOT EXISTS: an empty table whose
\* id column is INTEGER PRIMARY KEY AUTOINCREMENT
init_db == [rows |-> {}, seq |-> 0]

\* variant: a plain INTEGER PRIMARY KEY, one more than the largest id in the table
NextIdRowid(st) == MaxOf({ r.id : r \in st.rows }) + 1

\* AUTOINCREMENT: one more than the largest id ever assigned in the table
NextId(st) == Max(st.seq, MaxOf({ r.id : r \in st.rows })) + 1

insert_entry(st, entry_date, description, hours) ==
    [rows |-> st.rows \cup { [id |-> NextId(st), entry_date |-> entry_date,
                              description |-> description, hours |-> hours] },
     seq  |-> NextId(st)]

\* UPDATE ... WHERE id = ?: every field of the matching row is overwritten;
\* no row matches an unknown id
update_entry(st, entry_id, entry_date, description, hours) ==
    [rows |-> { IF SqlIdEq(r.id, entry_id)
                THEN [id |-> r.id, entry_date |-> entry_date,
                      description |-> description, hours |-> hours]
                ELSE r : r \in st.rows },
     seq  |-> st.seq]

\* DELETE ... WHERE id = ?
delete_entry(st, entry_id) ==
    [rows |-> { r \in st.rows : ~ SqlIdEq(r.id, entry_id) },
     seq  |-> st.seq]

\* ORDER BY entry_date DESC; rows of one date come out in rowid order
Precedes(a, b) ==
    \/ a.entry_date > b.entry_date
    \/ a.entry_date = b.entry_date /\ a.id <= b.id

RECURSIVE OrderByDateDesc(_)
OrderByDateDesc(S) ==
    IF S = {} THEN << >>
    ELSE LET first == CHOOSE r \in S : \A o \in S : Precedes(r, o)
         IN  << first >> \o OrderByDateDesc(S \ {first})

\* SELECT * FROM entries ORDER BY entry_date DESC
load_entries(st) == OrderByDateDesc(st.rows)

\* -------------------------------------------------------------- aggregator
RECURSIVE SumHours(_)
SumHours(s) == IF s = << >> THEN 0 ELSE Head(s).hours + SumHours(Tail(s))

\* df["hours"].sum() if not df.empty else 0
HoursUsed(d) == IF d # << >> THEN SumHours(d) ELSE 0

\* variant: the difference without the clamp
HoursRemainingUnclamped(used) == total_quota - used

\* max(0, total_quota - hours_used)
HoursRemaining(used) == Max(0, total_quota - used)

\* (hours_used / total_quota) * 100 if total_quota else 0; whole hours over
\* a quota of 25 give a whole percentage
PercentUsed(used) == IF total_quota # 0 THEN (used * 100) \div total_quota ELSE 0

\* dt.to_period("W").start_time: the Monday of the date's week
Week(d) == d - (d % 7)

\* df.groupby("week")["hours"].sum() read at one week
WeekHours(d, w) == SumHours(SelectSeq(d, LAMBDA r : Week(r.entry_date) = w))

\* pd.date_range(start, end, freq="W-MON"): the Mondays in [start, end]
RECURSIVE MondaysFrom(_, _)
MondaysFrom(m, end) == IF m > end THEN << >> ELSE << m >> \o MondaysFrom(m + 7, end)

date_range(start, end) == MondaysFrom(start + ((7 - (start % 7)) % 7), end)

\* variant: how="inner", which keeps only the weeks that have entries
InnerMerge(weeks, d) ==
    LET w == SelectSeq(weeks, LAMBDA m : \E k \in 1..Len(d) : Week(d[k].entry_date) = m)
    IN  [ i \in 1..Len(w) |-> [week |-> w[i], hours |-> WeekHours(d, w[i])] ]

\* full_df.merge(weekly_usage, on="week", how="left").fillna(0)
LeftMergeFill(weeks, d) ==
    [ i \in 1..Len(weeks) |->
        [week  |-> weeks[i],
         hours |-> IF \E k \in 1..Len(d) : Week(d[k].entry_date) = weeks[i]
                   THEN WeekHours(d, weeks[i]) ELSE 0] ]

WeeklyUsageFull(d, now) ==
    IF d # << >>
    THEN LET start == MaxOf({ m \in { Week(d[k].entry_date) : k \in 1..Len(d) } :
                              \A k \in 1..Len(d) : m <= Week(d[k].entry_date) })
         IN  LeftMergeFill(date_range(start, now), d)
    ELSE << >>

\* -------------------------------------------------------------- reconciler
\* what the grid can make of one loaded row: take it out, or keep it with
\* its cells as they are or overwritten
RowEdits(b) ==
    { << >> } \cup
    { << [id |-> b.id, entry_date |-> e[1], description |-> e[2], hours |-> e[3]] >> :
        e \in Entries }

RECURSIVE GridEdits(_)
GridEdits(d) ==
    IF d = << >> THEN { << >> }
    ELSE { h \o t : h \in RowEdits(Head(d)), t \in GridEdits(Tail(d)) }

\* rows appended in the grid: cells typed in, no id
GridAdditions ==
    { [ i \in 1..Len(a) |->
          [id |-> Null, entry_date |-> a[i][1], description |-> a[i][2], hours |-> a[i][3]] ] :
        a \in UNION { [1..k -> NewEntries] : k \in 0..MaxAdded } }

\* tables the grid can return for the loaded table d.  The id column is
\* int64 while every id is present; with a row without id in it the column
\* is float64 (NaN) or object (None)
Candidates(d) ==
    { [tbl |-> t, dtype |-> "int64"] : t \in GridEdits(d) }
    \cup
    { [tbl |-> t \o a, dtype |-> ty] :
        t \in GridEdits(d), a \in GridAdditions \ { << >> }, ty \in {"float64", "object"} }

\* set(df["id"]) - set(editable_df["id"]), both columns after astype(str)
deleted_ids(d, e, dtype) ==
    { astype_str(d[i].id, "int64") : i \in 1..Len(d) }
        \ { astype_str(e[j].id, dtype) : j \in 1..Len(e) }

\* editable_df[editable_df["id"].isna()], the id column after astype(str)
added_rows(e, dtype) == SelectSeq(e, LAMBDA r : isna(astype_str(r.id, dtype)))

\* editable_df.merge(df, on="id", suffixes=("_new", "_old")): inner join on
\* the id text, in the order of the left table
RECURSIVE MergeOnId(_, _, _)
MergeOnId(e, d, dtype) ==
    IF e = << >> THEN << >>
    ELSE LET c == Head(e)
             m == SelectSeq(d, LAMBDA b :
                      astype_str(b.id, "int64") = astype_str(c.id, dtype))
         IN  [ i \in 1..Len(m) |->
                 [id |-> astype_str(c.id, dtype),
                  entry_date_new |-> c.entry_date, entry_date_old |-> m[i].entry_date,
                  description_new |-> c.description, description_old |-> m[i].description,
                  hours_new |-> c.hours, hours_old |-> m[i].hours] ]
             \o MergeOnId(Tail(e), d, dtype)

\* the merged rows in which a field pair differs
Differs(r) ==
    \/ r.entry_date_new # r.entry_date_old
    \/ r.description_new # r.description_old
    \/ r.hours_new # r.hours_old

\* variant: the merged rows with the field comparison left out
updated_rows_unfiltered(d, e, dtype) == MergeOnId(e, d, dtype)

updated_rows(d, e, dtype) == SelectSeq(MergeOnId(e, d, dtype), Differs)

\* ------------------------------------------------- the Save Changes handler
UpdateCalls(u) ==
    [ i \in 1..Len(u) |->
        [kind |-> "update", id |-> u[i].id,
         fields |-> << u[i].entry_date_new, u[i].description_new, u[i].hours_new >>] ]

InsertCalls(a) ==
    [ i \in 1..Len(a) |->
        [kind |-> "insert", id |-> << >>,
         fields |-> << a[i].entry_date, a[i].description, a[i].hours >>] ]

DeleteCalls(o) ==
    [ i \in 1..Len(o) |-> [kind |-> "delete", id |-> o[i], fields |-> << >>] ]

\* variant: the delete loop placed ahead of the other two
SaveCallsDeletesFirst(u, a, o) == DeleteCalls(o) \o UpdateCalls(u) \o InsertCalls(a)

\* the three loops of the handler: updated_rows, added_rows, deleted_ids (o is
\* the order in which the set is iterated)
SaveCalls(u, a, o) == UpdateCalls(u) \o InsertCalls(a) \o DeleteCalls(o)

Call(st, c) ==
    CASE c.kind = "update" -> update_entry(st, c.id, c.fields[1], c.fields[2], c.fields[3])
      [] c.kind = "insert" -> insert_entry(st, c.fields[1], c.fields[2], c.fields[3])
      [] OTHER -> delete_entry(st, c.id)

RECURSIVE CallAll(_, _)
CallAll(st, cs) == IF cs = << >> THEN st ELSE CallAll(Call(st, Head(cs)), Tail(cs))

\* variant: one transaction around the batch, rolled back when a call raises
CommittedRolledBack(cs, fail) == IF fail = 0 THEN cs ELSE << >>

\* each call commits on its own; the call that raises ends the run, so the
\* calls before it stay committed and the calls after it are never made
Committed(cs, fail) == IF fail = 0 THEN cs ELSE SubSeq(cs, 1, fail - 1)
Issued(cs, fail) == IF fail = 0 THEN cs ELSE SubSeq(cs, 1, fail)

\* --------------------------------------------------------- one script run
\* lines 59-108: the load and everything derived from it
Render(st) ==
    LET d == load_entries(st)
    IN  /\ df' = d
        /\ hours_used' = HoursUsed(d)
        /\ hours_remaining' = HoursRemaining(HoursUsed(d))
        /\ percent_used' = PercentUsed(HoursUsed(d))
        /\ weekly_usage_full' = WeeklyUsageFull(d, today)

Stored(st) ==
    /\ rows' = st.rows
    /\ seq' = st.seq
    /\ assigned' = assigned \cup { r.id : r \in rows }
    /\ before' = rows

Init ==
    /\ rows = init_db.rows
    /\ seq = init_db.seq
    /\ today \in Todays
    /\ is_authorized = FALSE
    /\ df = << >>
    /\ hours_used = 0
    /\ hours_remaining = total_quota
    /\ percent_used = 0
    /\ weekly_usage_full = << >>
    /\ editable_df = << >>
    /\ id_dtype = "int64"
    /\ plan = << >>
    /\ issued = << >>
    /\ failed = 0
    /\ before = {}
    /\ assigned = {}
    /\ message = ""
    /\ last = "load"

\* variant: the write widgets built for every visitor
WriteWidgetsAlways == TRUE

\* if is_authorized: the entry form and the grid with its Save button are
\* only built for the admin
WriteWidgetsShown == is_authorized

\* a run no write widget triggered
Idle(st) ==
    /\ Stored(st)
    /\ Render(st)
    /\ id_dtype' = "int64"
    /\ plan' = << >>
    /\ issued' = << >>
    /\ failed' = 0
    /\ message' = ""
    /\ UNCHANGED today

\* the page is opened or refreshed
PageLoad ==
    /\ Idle([rows |-> rows, seq |-> seq])
    /\ editable_df' = IF WriteWidgetsShown THEN load_entries([rows |-> rows, seq |-> seq]) ELSE << >>
    /\ last' = "load"
    /\ UNCHANGED is_authorized

\* text typed into the password box: auth_pw == ADMIN_PASSWORD
EnterPassword(ok) ==
    /\ ok # is_authorized
    /\ is_authorized' = ok
    /\ Idle([rows |-> rows, seq |-> seq])
    /\ editable_df' = IF ok THEN load_entries([rows |-> rows, seq |-> seq]) ELSE << >>
    /\ last' = "password"

\* the entry form is submitted with the triple e; fail = 1 when the insert
\* raises
AddEntryWith(e, fail) ==
    LET st == [rows |-> rows, seq |-> seq]
        c  == InsertCalls(<< [entry_date |-> e[1], description |-> e[2], hours |-> e[3]] >>)
        st2 == CallAll(st, Committed(c, fail))
    IN  /\ NextId(st) <= MaxId
        /\ Stored(st2)
        /\ Render(st2)
        /\ editable_df' = load_entries(st2)
        /\ id_dtype' = "int64"
        /\ plan' = c
        /\ issued' = Issued(c, fail)
        /\ failed' = fail
        /\ message' = IF fail = 0 THEN "Entry added." ELSE "error"
        /\ last' = "add"
        /\ UNCHANGED << today, is_authorized >>

\* A run that wrote ends in st.rerun() or in the exception, and the run after
\* it is a plain load: the form and the button are live again once that run
\* has rendered
AddEntry ==
    /\ WriteWidgetsShown
    /\ message = ""
    /\ \E e \in Entries, fail \in 0..1 : AddEntryWith(e, fail)

\* Save Changes is clicked on the grid holding the table c; o is the order
\* in which deleted_ids is iterated and fail the call that raises (0: none)
SaveWith(d, c, o, fail) ==
    LET st == [rows |-> rows, seq |-> seq]
        cs == SaveCalls(updated_rows(d, c.tbl, c.dtype), added_rows(c.tbl, c.dtype), o)
        st2 == CallAll(st, Committed(cs, fail))
    IN  /\ fail \in 0..Len(cs)
        /\ Stored(st2)
        /\ Render(IF fail = 0 THEN st2 ELSE st)
        /\ editable_df' = c.tbl
        /\ id_dtype' = c.dtype
        /\ plan' = cs
        /\ issued' = Issued(cs, fail)
        /\ failed' = fail
        /\ message' = IF fail = 0 THEN "Changes saved." ELSE "error"
        /\ last' = "save"
        /\ UNCHANGED << today, is_authorized >>

Save ==
    /\ WriteWidgetsShown
    /\ message = ""
    /\ LET d == load_entries([rows |-> rows, seq |-> seq])
       IN  \E c \in Candidates(d) :
             \E o \in Perms(deleted_ids(d, c.tbl, c.dtype)) :
               \E fail \in 0..(Len(c.tbl) + Len(o)) : SaveWith(d, c, o, fail)

Next ==
    \/ PageLoad
    \/ \E ok \in BOOLEAN : EnterPassword(ok)
    \/ AddEntry
    \/ Save

Spec == Init /\ [][Next]_vars

\* ================================================================== claims
\* what the last Save was given and what it did, read off the table itself
BaseIds == { r.id : r \in before }
CandIds == { editable_df[j].id : j \in 1..Len(editable_df) } \ { Null }
SaveDone == last = "save" /\ failed = 0
FieldsOf(r) == << r.entry_date, r.description, r.hours >>
BaseRow(i) == CHOOSE r \in before : r.id = i
CandRow(i) == editable_df[CHOOSE j \in 1..Len(editable_df) : editable_df[j].id = i]
CallsOf(kind) == { k \in 1..Len(issued) : issued[k].kind = kind }

\* C1: a Save that ran to its end has issued, for every field triple, as many
\* inserts carrying it as the submitted table has rows without id carrying it
C1_NullIdRowsInserted ==
    SaveDone =>
        \A e \in Entries :
            Cardinality({ k \in CallsOf("insert") : issued[k].fields = e })
              = Cardinality({ j \in 1..Len(editable_df) :
                                editable_df[j].id = Null /\ FieldsOf(editable_df[j]) = e })

\* C2: the ids a Save that ran to its end has removed from the table are
\* exactly the loaded ids that the submitted table no longer has
C2_DeletesExactlyMissingIds ==
    SaveDone =>
        /\ BaseIds \ { r.id : r \in rows } = BaseIds \ CandIds
        /\ \A k \in CallsOf("delete") : \E i \in BaseIds \ CandIds : SqlIdEq(i, issued[k].id)

\* C3: a Save that ran to its end has issued an update for an id exactly when
\* the id is in both tables and a field of the submitted row differs from the
\* loaded row, and that update carries the three submitted fields
C3_UpdatesExactlyChangedRows ==
    SaveDone =>
        \A i \in BaseIds \cup CandIds :
            LET changed == i \in BaseIds /\ i \in CandIds
                             /\ FieldsOf(CandRow(i)) # FieldsOf(BaseRow(i))
                ups == { k \in CallsOf("update") : SqlIdEq(i, issued[k].id) }
            IN  /\ (ups # {}) <=> changed
                /\ \A k \in ups : issued[k].fields = FieldsOf(CandRow(i))

\* C4: when the submitted table is the loaded table, row for row, the Save
\* plans and issues no storage call and the table stays as it was
C4_IdenticalCandidateNoOps ==
    (last = "save" /\ editable_df = OrderByDateDesc(before)) =>
        plan = << >> /\ issued = << >> /\ rows = before

C4_Witness ==
    last = "save" /\ before # {} /\ editable_df = OrderByDateDesc(before)

\* C5: in the calls of one Save no insert or update follows a delete and no
\* update follows an insert
KindRank(k) == CASE k = "update" -> 1 [] k = "insert" -> 2 [] OTHER -> 3

C5_UpdatesInsertsDeletesOrder ==
    last = "save" =>
        \A i, j \in 1..Len(issued) :
            i < j => KindRank(issued[i].kind) <= KindRank(issued[j].kind)

C5_Witness ==
    /\ last = "save"
    /\ CallsOf("update") # {}
    /\ CallsOf("delete") # {}

\* C6: when a call of a Save raises, the calls before it show in the table,
\* the raising call and the calls planned after it do not and were (the
\* raising one apart) never made, and no success is reported
Shows(c) ==
    CASE c.kind = "update" ->
            \E r \in rows : SqlIdEq(r.id, c.id) /\ FieldsOf(r) = c.fields
      [] c.kind = "delete" ->
            /\ \E r \in before : SqlIdEq(r.id, c.id)
            /\ ~ \E r \in rows : SqlIdEq(r.id, c.id)
      [] OTHER ->
            \E r \in rows : r.id \notin BaseIds /\ FieldsOf(r) = c.fields

Untouched(c) ==
    CASE c.kind = "insert" -> ~ \E r \in rows : r.id \notin BaseIds
      [] OTHER -> \E r \in before : SqlIdEq(r.id, c.id) /\ r \in rows

C6_PartialBatchStaysCommitted ==
    (last = "save" /\ failed # 0) =>
        /\ message # "Changes saved."
        /\ Len(issued) = failed
        /\ \A k \in 1..Len(plan) :
              IF k < failed THEN Shows(plan[k]) /\ ~ Untouched(plan[k])
              ELSE Untouched(plan[k])

C6_Witness ==
    last = "save" /\ failed = 2 /\ rows # before

\* C7: after the form has added an entry, the listing holds a row with the
\* submitted fields whose id no row had before, in this run or any earlier
\* one, and no two stored rows share an id
C7_InsertThenListFreshId ==
    /\ \A r1, r2 \in rows : r1.id = r2.id => r1 = r2
    /\ (last = "add" /\ failed = 0) =>
          \E i \in 1..Len(df) :
              /\ FieldsOf(df[i]) = plan[1].fields
              /\ df[i].id \notin assigned
              /\ \A j \in 1..Len(df) : j # i => df[j].id # df[i].id

C7_Witness ==
    /\ last = "add"
    /\ failed = 0
    /\ assigned \ BaseIds # {}

\* C8: a run made while is_authorized is false makes no storage call and
\* leaves the table as it is
C8_UnauthorizedNeverWrites ==
    [][ ~ is_authorized => (rows' = rows /\ seq' = seq /\ issued' = << >>) ]_vars

C8_Witness ==
    ~ is_authorized /\ rows # {} /\ last = "load"

\* C9: hours_remaining is the quota less the hours of the loaded rows where
\* that is not negative and 0 where it is, and percent_used is not clamped
RECURSIVE SumUpTo(_, _)
SumUpTo(s, n) == IF n = 0 THEN 0 ELSE SumUpTo(s, n - 1) + s[n].hours

C9_RemainingClampedAtZero ==
    LET total == SumUpTo(df, Len(df))
    IN  /\ hours_remaining >= 0
        /\ total <= total_quota => hours_remaining = total_quota - total
        /\ total > total_quota => hours_remaining = 0
        /\ percent_used * total_quota = 100 * total

C9_Witness ==
    hours_used = 30 /\ hours_remaining = 0 /\ percent_used = 120

\* C10: for a non-empty listing the weekly series is the run of Mondays from
\* the week of the earliest entry to the week of today, seven days apart,
\* each with the hours of the listed entries of that week (0 if none)
RECURSIVE SumOfRows(_)
SumOfRows(S) ==
    IF S = {} THEN 0
    ELSE LET r == CHOOSE x \in S : TRUE IN r.hours + SumOfRows(S \ {r})

C10_WeeklySeriesDense ==
    df # << >> =>
        LET first == CHOOSE w \in { Week(df[k].entry_date) : k \in 1..Len(df) } :
                        \A k \in 1..Len(df) : w <= Week(df[k].entry_date)
            cur == Week(today)
        IN  /\ Len(weekly_usage_full) = IF cur >= first THEN (cur - first) \div 7 + 1 ELSE 0
            /\ \A i \in 1..Len(weekly_usage_full) :
                  /\ weekly_usage_full[i].week = first + 7 * (i - 1)
                  /\ weekly_usage_full[i].hours =
                       SumOfRows({ df[k] : k \in { n \in 1..Len(df) :
                                      Week(df[n].entry_date) = weekly_usage_full[i].week } })

C10_Witness ==
    /\ Len(weekly_usage_full) >= 3
    /\ \E i \in 1..Len(weekly_usage_full) : weekly_usage_full[i].hours = 0
    /\ \E i \in 1..Len(weekly_usage_full) : weekly_usage_full[i].hours > 0

====
